---- MODULE Spec2Model ----
(***************************************************************************)
(* State-machine model of usdt_monitor.py: a polling loop that reads the   *)
(* USDC balance of one Solana address, records every increase of the       *)
(* balance as an inbound transfer, prints windowed statistics and posts    *)
(* them to a Discord webhook.                                              *)
(*                                                                         *)
(* Conventions                                                             *)
(*  - amounts are whole numbers of USDC, so sums and differences are       *)
(*    exact; fractions and float rounding are not modelled;                *)
(*  - instants are integers of seconds on the local wall clock, which is   *)
(*    assumed monotonic; timedelta(seconds=s) is the integer s;            *)
(*  - the environment (RPC provider, webhook, console, clock, Ctrl-C) is   *)
(*    nondeterministic: every call of print may raise (an OSError of a     *)
(*    closed pipe or full disk, a UnicodeEncodeError of a console that     *)
(*    cannot encode the emoji and box characters of the messages).         *)
(***************************************************************************)
EXTENDS Integers, Sequences, FiniteSets

\* ------------------------------------------------------------------ bounds
\* iterations of the while loop a run may start
MaxIter == 2
\* largest balance (USDC) the provider reports
MaxBalance == 2
\* seconds the clock may advance, in total, between two readings of it that
\* no time.sleep separates
MaxTicks == 1

\* --------------------------------------------------------- program constants
CHECK_INTERVAL == 300
FIVE_MIN == 300
FIFTEEN_MIN == 900
ONE_HOUR == 3600
ONE_DAY == 86400
\* len(data) >= 72 and data[64:72]: the amount field of an SPL token account
DATA_MIN_LEN == 72
AMOUNT_OFFSET == 64
\* balance / 1_000_000: the raw amount counts millionths of a USDC
RAW_PER_USDC == 1000000
\* Python's None (an absent statistics field, a null ui_amount); amounts are >= 0
None == -1

\* ------------------------------------------------------------- environment
\* time.sleep(CHECK_INTERVAL) returns after at least CHECK_INTERVAL seconds; a
\* suspended process or machine returns later. The longer delays land the
\* elapsed time exactly on the 15-minute, 1-hour and 24-hour gates.
SleepAdvances == {CHECK_INTERVAL, FIFTEEN_MIN, ONE_HOUR, ONE_DAY}

\* the bytes of n, least significant first, in a field of len bytes
RECURSIVE LittleEndian(_, _)
LittleEndian(n, len) ==
    IF len = 0 THEN <<>> ELSE <<n % 256>> \o LittleEndian(n \div 256, len - 1)

\* raw account data of an SPL token account holding `usdc`: 64 bytes (mint and
\* owner), the amount in bytes 64..71, `tail` bytes more
AccountData(usdc, tail) ==
    [i \in 1..AMOUNT_OFFSET |-> 7] \o LittleEndian(usdc * RAW_PER_USDC, 8)
        \o [i \in 1..tail |-> 0]

\* buffers that hold the amount (165 bytes, the size of a token account), one
\* cut short of it (71 bytes), an empty one
DataBuffers == {AccountData(b, 93) : b \in 0..MaxBalance}
               \cup {SubSeq(AccountData(1, 0), 1, DATA_MIN_LEN - 1), <<>>}

\* What the RPC node answers to one get_usdc_balance call:
\*  "rpc_error"   Client(), get_token_accounts_by_owner or get_account_info raises
\*  "no_account"  the owner has no token account of the mint
\*  "balance"     get_token_account_balance answers, ui_amount = ui (or None)
\*  "no_value"    get_token_account_balance answers with an empty value
\*  "fallback"    get_token_account_balance raises; account_info carries data
Responses ==
    {[kind |-> k, ui |-> None, data |-> <<>>] : k \in {"rpc_error", "no_account", "no_value"}}
    \cup {[kind |-> "balance", ui |-> u, data |-> <<>>] : u \in (0..MaxBalance) \cup {None}}
    \cup {[kind |-> "fallback", ui |-> None, data |-> d] : d \in DataBuffers}

\* what requests.post / raise_for_status do with one webhook call
PostOutcomes == {"ok", "network_error", "http_error"}

\* ------------------------------------------------------------ pure functions
\* int.from_bytes(bytes(data[64:72]), byteorder='little')
RECURSIVE from_bytes_little(_)
from_bytes_little(bs) ==
    IF bs = <<>> THEN 0 ELSE Head(bs) + 256 * from_bytes_little(Tail(bs))

\* get_usdc_balance up to its logging: the value it returns, and whether the
\* outer except clause ran (which prints the error before returning 0.0)
get_usdc_balance(resp) ==
    CASE resp.kind = "rpc_error" ->
            [value |-> 0, logged |-> TRUE, failed |-> TRUE]
      [] resp.kind = "no_account" ->
            [value |-> 0, logged |-> FALSE, failed |-> FALSE]
      [] resp.kind = "balance" ->
            [value |-> IF resp.ui # None THEN resp.ui ELSE 0,
             logged |-> FALSE, failed |-> FALSE]
      [] resp.kind = "no_value" ->
            [value |-> 0, logged |-> FALSE, failed |-> FALSE]
      [] resp.kind = "fallback" ->
            [value |-> IF Len(resp.data) >= DATA_MIN_LEN
                       THEN from_bytes_little(SubSeq(resp.data, AMOUNT_OFFSET + 1, DATA_MIN_LEN))
                                \div RAW_PER_USDC
                       ELSE 0,
             logged |-> FALSE, failed |-> FALSE]

\* sum(amount for timestamp, amount in history if timestamp >= cutoff_time)
RECURSIVE sum_since(_, _)
sum_since(history, cutoff_time) ==
    IF history = <<>> THEN 0
    ELSE (IF Head(history).timestamp >= cutoff_time THEN Head(history).amount ELSE 0)
         + sum_since(Tail(history), cutoff_time)

\* faulty variant: `>` in place of `>=` at line 114
get_received_in_period_MutStrict(seconds, now, history) ==
    IF history = <<>> THEN 0
    ELSE sum_since(history, now - seconds + 1)

\* get_received_in_period(seconds); now is its own reading of datetime.now()
get_received_in_period(seconds, now, history) ==
    IF history = <<>> THEN 0
    ELSE sum_since(history, now - seconds)

\* faulty variant: `>` in place of `>=` in the gates of lines 143-145
get_statistics_data_MutStrictGate(nows, start, history) ==
    LET elapsed_seconds == IF start # None THEN nows[1] - start ELSE 0
    IN [last_5_min  |-> get_received_in_period(FIVE_MIN, nows[2], history),
        last_15_min |-> IF elapsed_seconds > FIFTEEN_MIN
                        THEN get_received_in_period(FIFTEEN_MIN, nows[3], history) ELSE None,
        last_hour   |-> IF elapsed_seconds > ONE_HOUR
                        THEN get_received_in_period(ONE_HOUR, nows[4], history) ELSE None,
        last_24h    |-> IF elapsed_seconds > ONE_DAY
                        THEN get_received_in_period(ONE_DAY, nows[5], history) ELSE None,
        nows |-> nows]

\* faulty variant: the statistics miss the newest record of the history
get_statistics_data_MutStale(nows, start, history) ==
    LET elapsed_seconds == IF start # None THEN nows[1] - start ELSE 0
        older == IF history = <<>> THEN <<>> ELSE SubSeq(history, 1, Len(history) - 1)
    IN [last_5_min  |-> get_received_in_period(FIVE_MIN, nows[2], older),
        last_15_min |-> IF elapsed_seconds >= FIFTEEN_MIN
                        THEN get_received_in_period(FIFTEEN_MIN, nows[3], older) ELSE None,
        last_hour   |-> IF elapsed_seconds >= ONE_HOUR
                        THEN get_received_in_period(ONE_HOUR, nows[4], older) ELSE None,
        last_24h    |-> IF elapsed_seconds >= ONE_DAY
                        THEN get_received_in_period(ONE_DAY, nows[5], older) ELSE None,
        nows |-> nows]

\* faulty variant: the windows of lines 143 and 144 are exchanged
get_statistics_data_MutSwapped(nows, start, history) ==
    LET elapsed_seconds == IF start # None THEN nows[1] - start ELSE 0
    IN [last_5_min  |-> get_received_in_period(FIVE_MIN, nows[2], history),
        last_15_min |-> IF elapsed_seconds >= FIFTEEN_MIN
                        THEN get_received_in_period(ONE_HOUR, nows[3], history) ELSE None,
        last_hour   |-> IF elapsed_seconds >= ONE_HOUR
                        THEN get_received_in_period(FIFTEEN_MIN, nows[4], history) ELSE None,
        last_24h    |-> IF elapsed_seconds >= ONE_DAY
                        THEN get_received_in_period(ONE_DAY, nows[5], history) ELSE None,
        nows |-> nows]

\* get_statistics_data(); nows[1] is its reading of datetime.now(), nows[2..5]
\* are the readings of the (up to) four get_received_in_period calls it makes.
\* The readings are kept with the result so that it can be related to them.
get_statistics_data(nows, start, history) ==
    LET elapsed_seconds == IF start # None THEN nows[1] - start ELSE 0
    IN [last_5_min  |-> get_received_in_period(FIVE_MIN, nows[2], history),
        last_15_min |-> IF elapsed_seconds >= FIFTEEN_MIN
                        THEN get_received_in_period(FIFTEEN_MIN, nows[3], history) ELSE None,
        last_hour   |-> IF elapsed_seconds >= ONE_HOUR
                        THEN get_received_in_period(ONE_HOUR, nows[4], history) ELSE None,
        last_24h    |-> IF elapsed_seconds >= ONE_DAY
                        THEN get_received_in_period(ONE_DAY, nows[5], history) ELSE None,
        nows |-> nows]

\* -------------------------------------------------------------------- state
VARIABLES
    pc,                     \* where the process is (see the actions)
    exit_cause,             \* "none", "interrupt" (KeyboardInterrupt), "error"
    clock,                  \* the last reading of datetime.now(); 0 is line 248's
    ticks,                  \* seconds the clock advanced outside time.sleep so far
    iter,                   \* iterations of the while loop started
    initial_balance,        \* the baseline (local of monitor_usdc_transactions)
    total_usdc_received,    \* global
    transaction_history,    \* global: sequence of [timestamp, amount]
    monitoring_start_time,  \* global
    current_time,           \* local: line 254
    current_balance,        \* local: line 258
    console_stats,          \* stats printed by print_statistics this iteration
    discord_stats,          \* stats posted by send_statistics_to_discord
    obs                     \* what happened in the current iteration
\* console_stats, discord_stats and obs observe the iteration under way; they
\* are no state of the program, and are cleared when the process ends.

vars == <<pc, exit_cause, clock, ticks, iter, initial_balance, total_usdc_received,
          transaction_history, monitoring_start_time, current_time, current_balance,
          console_stats, discord_stats, obs>>

program == <<initial_balance, total_usdc_received, transaction_history,
             monitoring_start_time>>

NoStats == [last_5_min |-> None, last_15_min |-> None, last_hour |-> None,
            last_24h |-> None, nows |-> <<>>]

\* Observations of one iteration, for stating properties about it:
\*  base, total, len  baseline, running total, history length at its start
\*  prev_reading      the reading of the preceding poll (or of the start)
\*  last_good         the latest earlier reading for which the provider call
\*                    did not raise (None when there is none)
\*  read              get_usdc_balance returned in this iteration
\*  provider_failed   the provider call of this iteration raised
\*  raised            an exception reached the except clause of the loop
\*  posts             calls of requests.post made
\*  send              "none", "ok" (True returned), "failed" (False returned),
\*                    "raised" (send_discord_message raised)
NoObs == [base |-> 0, total |-> 0, len |-> 0, prev_reading |-> 0,
          last_good |-> None, read |-> FALSE,
          provider_failed |-> FALSE, raised |-> FALSE, posts |-> 0, send |-> "none"]

\* the latest reading the clock may still give before the next time.sleep
LatestReading == clock + (MaxTicks - ticks)

\* a reading of datetime.now() made after the reading `prev`: the clock does not
\* go back; a reading that is not made repeats `prev`
ReadAfter(prev, made) == IF made THEN prev..LatestReading ELSE {prev}

\* the readings one get_statistics_data call makes: r[1] at line 139, r[2..5] in
\* its get_received_in_period calls (line 113). A call of get_received_in_period
\* that is not made (its window is gated off) or that returns at line 111 (the
\* history is empty) does not read the clock: its entry repeats the one before.
StatisticsReads ==
    LET some == transaction_history # <<>> IN
    UNION {UNION {UNION {UNION {
        {<<r1, r2, r3, r4, r5>> :
            r5 \in ReadAfter(r4, some /\ r1 - monitoring_start_time >= ONE_DAY)} :
            r4 \in ReadAfter(r3, some /\ r1 - monitoring_start_time >= ONE_HOUR)} :
            r3 \in ReadAfter(r2, some /\ r1 - monitoring_start_time >= FIFTEEN_MIN)} :
            r2 \in ReadAfter(r1, some)} :
            r1 \in ReadAfter(clock, TRUE)}

Init ==
    /\ pc = "start"
    /\ exit_cause = "none"
    /\ clock = 0
    /\ ticks = 0
    /\ iter = 0
    /\ initial_balance = 0
    /\ total_usdc_received = 0
    /\ transaction_history = <<>>
    /\ monitoring_start_time = None
    /\ current_time = 0
    /\ current_balance = 0
    /\ console_stats = NoStats
    /\ discord_stats = NoStats
    /\ obs = NoObs


\* ------------------------------------------------------------------ actions
\* received = current_balance - initial_balance (line 262)
received(balance, baseline) == balance - baseline

\* faulty variant: `=` in place of `+=` at line 263
add_received_MutAssign(total, balance, baseline) == received(balance, baseline)

\* total_usdc_received += received (line 263)
add_received(total, balance, baseline) == total + received(balance, baseline)

\* faulty variant: the record is inserted at the front of the list
append_transaction_MutPrepend(history, time, balance, baseline) ==
    <<[timestamp |-> time, amount |-> received(balance, baseline)]>> \o history

\* transaction_history.append((current_time, received)) (line 266)
append_transaction(history, time, balance, baseline) ==
    Append(history, [timestamp |-> time, amount |-> received(balance, baseline)])

\* faulty variant: the elif of lines 274-276 is missing
branch_MutNoOutbound(balance, baseline) ==
    IF balance > baseline THEN "inbound" ELSE "none"

\* faulty variant: `!=` in place of `>` at line 261
branch_MutNotEqual(balance, baseline) ==
    IF balance # baseline THEN "inbound" ELSE "none"

\* the branch of lines 261-276 an iteration takes
branch(balance, baseline) ==
    IF balance > baseline THEN "inbound"
    ELSE IF balance < baseline THEN "outbound"
    ELSE "none"

\* faulty variant: a failed post is attempted a second time
send_discord_message_MutRetry(post, log) ==
    [posts  |-> IF post = "ok" THEN 1 ELSE 2,
     result |-> IF post = "ok" THEN "ok" ELSE IF log = "ok" THEN "failed" ELSE "raised"]

\* send_discord_message: one requests.post; on an exception (of the post or of
\* raise_for_status) the except clause prints the error and returns False. The
\* print of the except clause is not guarded: when it raises, the call raises.
send_discord_message(post, log) ==
    [posts  |-> 1,
     result |-> IF post = "ok" THEN "ok" ELSE IF log = "ok" THEN "failed" ELSE "raised"]

\* lines 239-250: the banner, the initial reading, the session start.
\* An exception here (a print that raises, also the one of get_usdc_balance's
\* except clause) leaves monitor_usdc_transactions and ends the process.
Startup ==
    /\ pc = "start"
    /\ \E resp \in Responses, console \in {"ok", "raises_early", "raises_late"} :
        LET r == get_usdc_balance(resp) IN
        CASE console = "raises_early" ->
                \* a print of the banner, or of the provider error, raises
                /\ pc' = "terminated"
                /\ exit_cause' = "error"
                /\ UNCHANGED <<initial_balance, monitoring_start_time, obs>>
          [] console = "raises_late" ->
                \* the print of the initial balance (line 249) raises
                /\ pc' = "terminated"
                /\ exit_cause' = "error"
                /\ monitoring_start_time' = clock
                /\ initial_balance' = r.value
                /\ UNCHANGED obs
          [] console = "ok" ->
                /\ pc' = "poll"
                /\ UNCHANGED exit_cause
                /\ initial_balance' = r.value
                /\ monitoring_start_time' = clock
                /\ obs' = [NoObs EXCEPT !.prev_reading = r.value, !.base = r.value,
                                        !.last_good = IF r.failed THEN None ELSE r.value]
    /\ UNCHANGED <<clock, ticks, iter, total_usdc_received, transaction_history,
                   current_time, current_balance, console_stats, discord_stats>>

\* lines 254-258: the top of an iteration. get_usdc_balance raises only when
\* the print of its except clause does.
Poll ==
    /\ pc = "poll"
    /\ iter' = iter + 1
    /\ \E now \in ReadAfter(clock, TRUE) :
        /\ current_time' = now
        /\ clock' = now
        /\ ticks' = ticks + (now - clock)
    /\ \E resp \in Responses, log \in {"ok", "raises"} :
        LET r == get_usdc_balance(resp)
            o == [obs EXCEPT !.base = initial_balance,
                               !.total = total_usdc_received,
                               !.len = Len(transaction_history),
                               !.provider_failed = r.failed]
        IN IF r.logged /\ log = "raises"
           THEN /\ pc' = "except"
                /\ obs' = [o EXCEPT !.raised = TRUE]
                /\ UNCHANGED current_balance
           ELSE /\ pc' = "compare"
                /\ obs' = [o EXCEPT !.read = TRUE]
                /\ current_balance' = r.value
    /\ UNCHANGED <<exit_cause, initial_balance, total_usdc_received,
                   transaction_history, monitoring_start_time, console_stats,
                   discord_stats>>

\* lines 261-276: the three branches. In the inbound branch the alert is
\* printed (268-271) between the append and the update of the baseline.
Compare ==
    /\ pc = "compare"
    /\ CASE branch(current_balance, initial_balance) = "inbound" ->
            /\ total_usdc_received' =
                    add_received(total_usdc_received, current_balance, initial_balance)
            /\ transaction_history' =
                    append_transaction(transaction_history, current_time,
                                       current_balance, initial_balance)
            /\ \E alert \in {"ok", "raises"} :
                IF alert = "ok"
                THEN /\ initial_balance' = current_balance
                     /\ pc' = "stats"
                     /\ UNCHANGED obs
                ELSE /\ UNCHANGED initial_balance
                     /\ pc' = "except"
                     /\ obs' = [obs EXCEPT !.raised = TRUE]
         [] branch(current_balance, initial_balance) = "outbound" ->
            /\ initial_balance' = current_balance
            /\ pc' = "stats"
            /\ UNCHANGED <<total_usdc_received, transaction_history, obs>>
         [] branch(current_balance, initial_balance) = "none" ->
            /\ pc' = "stats"
            /\ UNCHANGED <<initial_balance, total_usdc_received, transaction_history, obs>>
    /\ UNCHANGED <<exit_cause, clock, ticks, iter, monitoring_start_time, current_time,
                   current_balance, console_stats, discord_stats>>

\* lines 279-280: the balance line and print_statistics, which computes the
\* statistics and prints them
ConsoleStatistics ==
    /\ pc = "stats"
    /\ \E console \in {"ok", "raises"} :
        IF console = "raises"
        THEN /\ pc' = "except"
             /\ obs' = [obs EXCEPT !.raised = TRUE]
             /\ UNCHANGED <<clock, ticks, console_stats>>
        ELSE \E nows \in StatisticsReads :
             /\ console_stats' =
                    get_statistics_data(nows, monitoring_start_time, transaction_history)
             /\ clock' = nows[5]
             /\ ticks' = ticks + (nows[5] - clock)
             /\ pc' = "send"
             /\ UNCHANGED obs
    /\ UNCHANGED <<exit_cause, iter, initial_balance, total_usdc_received,
                   transaction_history, monitoring_start_time, current_time,
                   current_balance, discord_stats>>

\* lines 283-286: send_statistics_to_discord computes the statistics again,
\* builds the embed and calls send_discord_message once, ignoring its result;
\* then the "waiting" line is printed
SendStatistics ==
    /\ pc = "send"
    /\ \E nows \in StatisticsReads, post \in PostOutcomes,
          log \in {"ok", "raises"}, console \in {"ok", "raises"} :
        LET sent == send_discord_message(post, log) IN
        /\ post = "ok" => log = "ok"
        /\ sent.result = "raised" => console = "ok"
        /\ discord_stats' =
                get_statistics_data(nows, monitoring_start_time, transaction_history)
        /\ clock' = nows[5]
        /\ ticks' = ticks + (nows[5] - clock)
        /\ IF sent.result = "raised" \/ console = "raises"
           THEN /\ pc' = "except"
                /\ obs' = [obs EXCEPT !.posts = @ + sent.posts, !.send = sent.result,
                                      !.raised = TRUE]
           ELSE /\ pc' = "sleep"
                /\ obs' = [obs EXCEPT !.posts = @ + sent.posts, !.send = sent.result]
    /\ UNCHANGED <<exit_cause, iter, initial_balance, total_usdc_received,
                   transaction_history, monitoring_start_time, current_time,
                   current_balance, console_stats>>

\* lines 288-290: the except clause of the loop prints the error. Its print is
\* not guarded either: when it raises, the exception leaves the loop and
\* reaches the except clause of __main__ (line 301), and the process ends.
Handler ==
    /\ pc = "except"
    /\ \E console \in {"ok", "raises"} :
        IF console = "ok"
        THEN /\ pc' = "sleep"
             /\ UNCHANGED <<exit_cause, console_stats, discord_stats, obs>>
        ELSE /\ pc' = "terminated"
             /\ exit_cause' = "error"
             /\ console_stats' = NoStats
             /\ discord_stats' = NoStats
             /\ obs' = NoObs
    /\ UNCHANGED <<clock, ticks, iter, initial_balance, total_usdc_received,
                   transaction_history, monitoring_start_time, current_time,
                   current_balance>>

\* line 293: time.sleep(CHECK_INTERVAL), then the next iteration
Sleep ==
    /\ pc = "sleep"
    /\ iter < MaxIter
    /\ \E d \in SleepAdvances : clock' = clock + d
    /\ pc' = "poll"
    /\ obs' = [NoObs EXCEPT !.prev_reading =
                                IF obs.read THEN current_balance ELSE obs.prev_reading,
                            !.last_good =
                                IF obs.read /\ ~obs.provider_failed
                                THEN current_balance ELSE obs.last_good]
    /\ console_stats' = NoStats
    /\ discord_stats' = NoStats
    /\ UNCHANGED <<exit_cause, ticks, iter, initial_balance, total_usdc_received,
                   transaction_history, monitoring_start_time, current_time,
                   current_balance>>

\* the process as KeyboardInterrupt leaves it: what the interrupted step had
\* assigned so far stays assigned
Interrupted(it, now, baseline, total, history, start, time, balance) ==
    /\ pc' = "terminated"
    /\ exit_cause' = "interrupt"
    /\ iter' = it
    /\ clock' = now
    /\ ticks' = ticks + (now - clock)
    /\ initial_balance' = baseline
    /\ total_usdc_received' = total
    /\ transaction_history' = history
    /\ monitoring_start_time' = start
    /\ current_time' = time
    /\ current_balance' = balance
    /\ console_stats' = NoStats
    /\ discord_stats' = NoStats
    /\ obs' = NoObs

\* lines 297-300: KeyboardInterrupt is no Exception; it passes the except
\* clauses of the loop and ends the process. It arrives between any two
\* statements, or inside a call, of the step the process is at, and keeps the
\* assignments that step has made before it.
Interrupt ==
    /\ pc # "terminated"
    /\ \/ \* before the first assignment of the step
          Interrupted(iter, clock, initial_balance, total_usdc_received,
                      transaction_history, monitoring_start_time, current_time,
                      current_balance)
       \/ \* line 248: the initial reading is bound, the session start is not
          /\ pc = "start"
          /\ \E resp \in Responses :
                Interrupted(iter, clock, get_usdc_balance(resp).value,
                            total_usdc_received, transaction_history,
                            monitoring_start_time, current_time, current_balance)
       \/ \* lines 249-250: both are assigned
          /\ pc = "start"
          /\ \E resp \in Responses :
                Interrupted(iter, clock, get_usdc_balance(resp).value,
                            total_usdc_received, transaction_history, clock,
                            current_time, current_balance)
       \/ \* line 254: the iteration has begun, current_time is not yet bound
          /\ pc = "poll"
          /\ Interrupted(iter + 1, clock, initial_balance, total_usdc_received,
                         transaction_history, monitoring_start_time, current_time,
                         current_balance)
       \/ \* lines 255-258: current_time is bound, the reading is not
          /\ pc = "poll"
          /\ \E now \in ReadAfter(clock, TRUE) :
                Interrupted(iter + 1, now, initial_balance, total_usdc_received,
                            transaction_history, monitoring_start_time, now,
                            current_balance)
       \/ \* line 261: the reading is bound
          /\ pc = "poll"
          /\ \E now \in ReadAfter(clock, TRUE), resp \in Responses :
                Interrupted(iter + 1, now, initial_balance, total_usdc_received,
                            transaction_history, monitoring_start_time, now,
                            get_usdc_balance(resp).value)
       \/ \* line 266: the total is increased, the record is not yet appended
          /\ pc = "compare"
          /\ branch(current_balance, initial_balance) = "inbound"
          /\ Interrupted(iter, clock, initial_balance,
                         add_received(total_usdc_received, current_balance,
                                      initial_balance),
                         transaction_history, monitoring_start_time, current_time,
                         current_balance)
       \/ \* lines 268-273: the record is appended, the baseline not yet advanced
          /\ pc = "compare"
          /\ branch(current_balance, initial_balance) = "inbound"
          /\ Interrupted(iter, clock, initial_balance,
                         add_received(total_usdc_received, current_balance,
                                      initial_balance),
                         append_transaction(transaction_history, current_time,
                                            current_balance, initial_balance),
                         monitoring_start_time, current_time, current_balance)
       \/ \* after line 273: the inbound branch has run to its end
          /\ pc = "compare"
          /\ branch(current_balance, initial_balance) = "inbound"
          /\ Interrupted(iter, clock, current_balance,
                         add_received(total_usdc_received, current_balance,
                                      initial_balance),
                         append_transaction(transaction_history, current_time,
                                            current_balance, initial_balance),
                         monitoring_start_time, current_time, current_balance)
       \/ \* after line 276: the outbound branch has run to its end
          /\ pc = "compare"
          /\ branch(current_balance, initial_balance) = "outbound"
          /\ Interrupted(iter, clock, current_balance, total_usdc_received,
                         transaction_history, monitoring_start_time, current_time,
                         current_balance)
       \/ \* lines 280, 283: inside a computation of the statistics, after some
          \* of its readings of the clock
          /\ pc \in {"stats", "send"}
          /\ \E now \in ReadAfter(clock, TRUE) :
                Interrupted(iter, now, initial_balance, total_usdc_received,
                            transaction_history, monitoring_start_time,
                            current_time, current_balance)

Next ==
    \/ Startup
    \/ Poll
    \/ Compare
    \/ ConsoleStatistics
    \/ SendStatistics
    \/ Handler
    \/ Sleep
    \/ Interrupt

Spec == Init /\ [][Next]_vars

TypeOK ==
    /\ pc \in {"start", "poll", "compare", "stats", "send", "except", "sleep", "terminated"}
    /\ exit_cause \in {"none", "interrupt", "error"}
    /\ clock \in Nat /\ ticks \in 0..MaxTicks /\ iter \in 0..MaxIter
    /\ initial_balance \in Nat /\ total_usdc_received \in Nat
    /\ current_balance \in Nat

\* ------------------------------------------------------------------ claims
\* the sum of the amounts of the records of h at the positions S
RECURSIVE SumOver(_, _)
SumOver(S, h) ==
    IF S = {} THEN 0
    ELSE LET i == CHOOSE x \in S : TRUE IN h[i].amount + SumOver(S \ {i}, h)

\* the positions of the records of h not older than `seconds` at `now`
InWindow(h, now, seconds) == {i \in DOMAIN h : h[i].timestamp >= now - seconds}

\* the current iteration has passed its comparison (lines 261-276)
Compared == pc \in {"stats", "send", "sleep"} \/ (pc = "except" /\ obs.read)

LastRecord == transaction_history[Len(transaction_history)]

\* C1: the running total equals the sum of the amounts of all records of the
\* history: after the start, at the end of every iteration and wherever the
\* statistics are computed or sent. (Between lines 263 and 266 the total is
\* ahead of the history, which only an interrupt arriving there leaves behind.)
C1_TotalIsSumOfHistory ==
    pc \in {"poll", "stats", "send", "except", "sleep"} =>
        total_usdc_received = SumOver(DOMAIN transaction_history, transaction_history)

\* C1 witness: an iteration ends with two records in the history
C1_Witness ==
    /\ pc = "sleep"
    /\ Len(transaction_history) = 2
    /\ total_usdc_received = 2

\* C2 (as claimed): an iteration whose reading is above the baseline appends
\* exactly one record (now, reading - baseline), adds reading - baseline to the
\* running total, and ends with the baseline equal to the reading.
C2_InboundIteration ==
    (pc = "sleep" /\ obs.read /\ current_balance > obs.base) =>
        /\ Len(transaction_history) = obs.len + 1
        /\ LastRecord = [timestamp |-> current_time,
                         amount |-> current_balance - obs.base]
        /\ total_usdc_received = obs.total + (current_balance - obs.base)
        /\ initial_balance = current_balance

\* C3: in an iteration whose reading is below the baseline, the comparison sets
\* the baseline to the reading and leaves the history and the running total
\* alone, and no later step of the iteration touches any of the three.
C3_OutboundIteration ==
    [][/\ (pc = "compare" /\ current_balance < initial_balance /\ pc' # "terminated") =>
            /\ initial_balance' = current_balance
            /\ UNCHANGED <<transaction_history, total_usdc_received>>
       /\ pc \in {"stats", "send", "except"} =>
            UNCHANGED <<initial_balance, transaction_history, total_usdc_received>>]_vars

\* C3 witness: an iteration that read less than its baseline ends, with a
\* record in the history that it left alone
C3_Witness ==
    /\ pc = "sleep"
    /\ obs.read /\ ~obs.raised
    /\ current_balance < obs.base
    /\ initial_balance = current_balance
    /\ Len(transaction_history) = 1

\* C4 (as claimed): whenever a poll reads more than the poll before it, the
\* iteration appends a record whose amount is the difference of the two
\* readings, whatever the readings before them were.
C4_IncreaseOverPrecedingPoll ==
    (Compared /\ obs.read /\ current_balance > obs.prev_reading) =>
        /\ Len(transaction_history) = obs.len + 1
        /\ LastRecord.amount = current_balance - obs.prev_reading

\* C5 (as claimed): an iteration whose provider call raises reads 0, appends no
\* record, leaves the running total alone, ends with the baseline at 0, and
\* goes on to the sleep: the process does not end in it.
C5_ProviderFailureIteration ==
    [][/\ obs'.provider_failed =>
            /\ obs'.read /\ current_balance' = 0
            /\ Len(transaction_history') = obs'.len
            /\ total_usdc_received' = obs'.total
            /\ Compared' => initial_balance' = 0
       /\ obs.provider_failed => exit_cause' # "error"]_vars

\* the statistics computed in the current iteration
ComputedStats == {st \in {console_stats, discord_stats} : st.nows # <<>>}

\* C6: every statistics result has the 5-minute sum, and has the 15-minute,
\* 1-hour and 24-hour sums exactly when the session is at least that old at the
\* result's reading of the clock (also when it is exactly that old); a field
\* that is not due is None, not 0.
C6_WindowsGatedOnElapsed ==
    \A st \in ComputedStats :
        LET elapsed == st.nows[1] - monitoring_start_time IN
        /\ st.last_5_min # None
        /\ st.last_15_min # None <=> elapsed >= 900
        /\ st.last_hour # None <=> elapsed >= 3600
        /\ st.last_24h # None <=> elapsed >= 86400

\* C6 witness: statistics printed exactly 900 s into the session, with a
\* 15-minute sum of 0 and no 1-hour sum
C6_Witness ==
    /\ console_stats.nows # <<>>
    /\ console_stats.nows[1] - monitoring_start_time = 900
    /\ transaction_history = <<>>
    /\ console_stats.last_15_min = 0
    /\ console_stats.last_hour = None

\* C7: each sum of a statistics result is the sum of the amounts of exactly the
\* records whose timestamp is >= now - window, `now` being the reading of the
\* clock of that get_received_in_period call: a record at the boundary counts,
\* an older one does not, and an empty history gives 0.
C7_SumInWindow ==
    \A st \in ComputedStats :
        LET h == transaction_history
            Sum(now, seconds) == SumOver(InWindow(h, now, seconds), h)
        IN /\ st.last_5_min = Sum(st.nows[2], 300)
           /\ st.last_15_min # None => st.last_15_min = Sum(st.nows[3], 900)
           /\ st.last_hour # None => st.last_hour = Sum(st.nows[4], 3600)
           /\ st.last_24h # None => st.last_24h = Sum(st.nows[5], 86400)
           /\ h = <<>> => st.last_5_min = 0

\* C7 witness: the printed 5-minute sum counts a record exactly 300 s old, and
\* the sum sent a second later, with the record 301 s old, does not
C7_Witness ==
    /\ console_stats.nows # <<>> /\ discord_stats.nows # <<>>
    /\ Len(transaction_history) = 1
    /\ transaction_history[1].timestamp = console_stats.nows[2] - 300
    /\ console_stats.last_5_min = transaction_history[1].amount
    /\ transaction_history[1].timestamp = discord_stats.nows[2] - 301
    /\ discord_stats.last_5_min = 0

\* C8 (as claimed): every iteration makes exactly one send attempt.
C8_ExactlyOneSendPerIteration ==
    pc = "sleep" => obs.posts = 1

\* C8 (amended): an iteration makes at most one send attempt, and exactly one
\* unless an exception ended it before the send (steps 1-5), whatever the
\* reading was and however the attempt ends; a failed attempt is not repeated.
C8_OneSendUnlessRaisedBefore ==
    /\ obs.posts <= 1
    /\ pc = "sleep" =>
        /\ obs.send = "none" => (obs.raised /\ obs.posts = 0)
        /\ obs.send # "none" => obs.posts = 1

\* C8 witness: an iteration whose only send attempt failed ends
C8_Witness ==
    /\ pc = "sleep"
    /\ obs.send = "failed"
    /\ obs.posts = 1
    /\ ~obs.raised

\* C9 (as claimed): a send that fails returns the failure (it does not raise),
\* the send step leaves baseline, history and total alone, and the iteration
\* goes on to the sleep.
C9_SendFailureIsContained ==
    [][(pc = "send" /\ pc' # "terminated") =>
            /\ obs'.send \in {"ok", "failed"}
            /\ UNCHANGED <<initial_balance, transaction_history, total_usdc_received>>
            /\ (obs'.send = "failed" /\ ~obs'.raised) => pc' = "sleep"]_vars

\* C10 (as claimed): an exception of an iteration is caught and the loop goes
\* on to the sleep; only an interrupt ends the process there.
C10_CaughtThenSleep ==
    [][pc = "except" => (pc' = "sleep" \/ exit_cause' = "interrupt")]_vars

\* C11 (as claimed): the process ends only by an interrupt or by an error of
\* the start; once the loop is entered no fault of an iteration ends it.
C11_NoErrorExitFromLoop ==
    exit_cause = "error" => iter = 0

\* the current iteration took the inbound branch
Inbound == obs.read /\ current_balance > obs.base

\* C12: the statistics printed and sent in an iteration are computed from the
\* history as that iteration left it: a record the iteration appended is in
\* the history and in the running total when they are computed, it is counted
\* in their 5-minute sum (its timestamp being less than 5 minutes before the
\* reading of the clock), and the history and the total are not changed between
\* the comparison and the send.
C12_StatsOfUpdatedHistory ==
    \A st \in ComputedStats :
        /\ Len(transaction_history) = obs.len + (IF Inbound THEN 1 ELSE 0)
        /\ Inbound =>
            /\ LastRecord = [timestamp |-> current_time,
                             amount |-> current_balance - obs.base]
            /\ total_usdc_received = obs.total + LastRecord.amount
            /\ st.nows[2] - current_time <= 300 => st.last_5_min >= LastRecord.amount
        /\ ~Inbound => total_usdc_received = obs.total

\* C12 witness: an iteration that appended a record of 2 has printed and sent
\* statistics whose 5-minute sums count it
C12_Witness ==
    /\ pc = "sleep"
    /\ Inbound
    /\ LastRecord.amount = 2
    /\ console_stats.nows # <<>> /\ discord_stats.nows # <<>>
    /\ console_stats.last_5_min >= 2
    /\ discord_stats.last_5_min >= 2

\* C13 (as claimed): get_usdc_balance never propagates an exception, never
\* returns a negative value, and returns 0.0 on every provider fault: every
\* poll of the loop therefore yields a reading, which is 0 when the provider
\* failed.
C13_ReadBalanceTotal ==
    pc \in {"compare", "stats", "send", "except", "sleep"} =>
        /\ obs.read
        /\ current_balance >= 0
        /\ obs.provider_failed => current_balance = 0

\* C14: the history is append-only and its records immutable: across every
\* step the earlier history is a prefix of the later one, and the timestamps
\* of the records are non-decreasing in insertion order.
C14_HistoryAppendOnly ==
    [][/\ Len(transaction_history) <= Len(transaction_history')
       /\ SubSeq(transaction_history', 1, Len(transaction_history)) = transaction_history
       /\ \A i, j \in DOMAIN transaction_history' :
            i <= j => transaction_history'[i].timestamp <= transaction_history'[j].timestamp]_vars

\* C14 witness: a second record has been appended behind an earlier one, one
\* sleep later
C14_Witness ==
    /\ Len(transaction_history) = 2
    /\ transaction_history[1] = [timestamp |-> 0, amount |-> 1]
    /\ transaction_history[2].timestamp >= CHECK_INTERVAL

\* C15: every record of the history has a strictly positive amount, and the
\* running total never decreases across a step.
C15_PositiveAmounts ==
    [][/\ \A i \in DOMAIN transaction_history' : transaction_history'[i].amount > 0
       /\ total_usdc_received' >= total_usdc_received]_vars

\* C15 witness: after a record of 2 the balance fell from 2 to 0; the
\* iteration of the decrease left the record and the total as they were
C15_Witness ==
    /\ iter = 2
    /\ pc = "sleep"
    /\ obs.base = 2
    /\ current_balance = 0
    /\ Len(transaction_history) = 1
    /\ transaction_history[1].amount = 2
    /\ total_usdc_received = 2

\* C16 (as claimed): a provider failure and its recovery create no income
\* record: when the preceding poll failed and the reading of this iteration is
\* no higher than the latest reading the provider answered before the
\* failure, the iteration appends no record and leaves the running total as it
\* was.
C16_NoIncomeFromRecovery ==
    (/\ Compared
     /\ obs.read
     /\ ~obs.provider_failed
     /\ obs.last_good # None
     /\ obs.prev_reading # obs.last_good
     /\ current_balance <= obs.last_good) =>
        /\ Len(transaction_history) = obs.len
        /\ total_usdc_received = obs.total

\* C17 (as claimed): an increase is recorded at most once even when its
\* iteration fails: when an exception is raised in an inbound iteration after
\* the record has been appended, the baseline has already been advanced to the
\* reading; and an iteration whose reading equals that of the preceding poll
\* appends no record.
C17_IncreaseRecordedOnce ==
    /\ (/\ pc \in {"except", "sleep"}
        /\ obs.raised
        /\ obs.read
        /\ Len(transaction_history) = obs.len + 1) => initial_balance = current_balance
    /\ (/\ Compared
        /\ obs.read
        /\ current_balance = obs.prev_reading) => Len(transaction_history) = obs.len

\* C18: at the end of every iteration that completes without an exception the
\* baseline equals the reading of that iteration, whichever branch it took,
\* and after the start it equals the initial reading.
C18_BaselineIsReading ==
    /\ (pc = "sleep" /\ ~obs.raised) => (obs.read /\ initial_balance = current_balance)
    /\ (pc = "poll" /\ iter = 0) => initial_balance = obs.prev_reading

\* C18 witness: an iteration that read 0 against a baseline of 2 has completed
\* without an exception with the baseline at 0
C18_Witness ==
    /\ pc = "sleep"
    /\ ~obs.raised
    /\ obs.base = 2
    /\ current_balance = 0
    /\ initial_balance = 0

\* a <= b for two values of a statistics result that are both present
NestedIfPresent(a, b) == (a # None /\ b # None) => a <= b

\* C19: in every statistics result the window sums are nested: 5-minute sum
\* <= 15-minute sum <= 1-hour sum <= 24-hour sum <= running total, for every
\* pair of them that is present in the result.
C19_WindowSumsNested ==
    \A st \in ComputedStats :
        /\ NestedIfPresent(st.last_5_min, st.last_15_min)
        /\ NestedIfPresent(st.last_5_min, st.last_hour)
        /\ NestedIfPresent(st.last_5_min, st.last_24h)
        /\ NestedIfPresent(st.last_15_min, st.last_hour)
        /\ NestedIfPresent(st.last_15_min, st.last_24h)
        /\ NestedIfPresent(st.last_hour, st.last_24h)
        /\ st.last_5_min <= total_usdc_received
        /\ NestedIfPresent(st.last_15_min, total_usdc_received)
        /\ NestedIfPresent(st.last_hour, total_usdc_received)
        /\ NestedIfPresent(st.last_24h, total_usdc_received)

\* C19 witness: statistics computed one hour after a record of 2: the record
\* is outside the 5- and 15-minute windows and inside the 1-hour window
C19_Witness ==
    /\ discord_stats.nows # <<>>
    /\ discord_stats.last_5_min = 0
    /\ discord_stats.last_15_min = 0
    /\ discord_stats.last_hour = 2
    /\ discord_stats.last_24h = None
    /\ total_usdc_received = 2

\* C20 (as claimed): within one iteration the statistics printed to the
\* console and the statistics sent to the webhook are identical: the same
\* window fields are present and each window has the same sum.
C20_ConsoleEqualsDiscord ==
    (console_stats.nows # <<>> /\ discord_stats.nows # <<>>) =>
        /\ console_stats.last_5_min = discord_stats.last_5_min
        /\ console_stats.last_15_min = discord_stats.last_15_min
        /\ console_stats.last_hour = discord_stats.last_hour
        /\ console_stats.last_24h = discord_stats.last_24h

====
